---------------------------- MODULE Spec2Model ----------------------------
(***************************************************************************)
(* Cloud Provider page objects of CFME (cfme/cloud/provider/__init__.py):  *)
(* the navigation steps registered for CloudProvider, the resolver that    *)
(* walks them (navigate_to), and the helpers get_all_providers, discover   *)
(* and wait_for_a_provider, driven against a browser whose location is the *)
(* only thing the arrival checks read.                                     *)
(***************************************************************************)
EXTENDS Integers, Sequences, FiniteSets, TLC

\* ---------------------------------------------------------------- bounds

\* Number of provider names the test suite may use (names are 1..NumProviders).
NumProviders == 2

\* Quadicons shown per page of the paginated listing.
PageSize == 1

\* Seconds one failed poll of wait_for costs (the delay plus the refresh).
PollCost == 400

\* ------------------------------------------------------------- constants

\* wait_for(..., num_sec=1000, ...)
num_sec == 1000

\* wait_for(..., fail_condition=0, ...)
fail_condition == 0

\* navigate_to(CloudProvider, ...) on the class itself: no provider object.
NoProv == 0

ProviderNames == 1..NumProviders

\* The sentinel a root step has for a prerequisite.
Root == <<"root", "root">>

CloudProvider == "CloudProvider"

Server == "Server"

\* link_marker = "ems_cloud"
link_marker == "ems_cloud"

\* ------------------------------------------------------ the registrations

Sibling(name) == <<CloudProvider, name>>

\* NavigateToAttribute('appliance.server', 'LoggedIn')
ServerLoggedIn == <<Server, "LoggedIn">>

Reg(name, cls, view, pre) ==
    [name |-> name, cls |-> cls, view |-> view, prerequisite |-> pre]

\* The classes registered with @navigator.register(CloudProvider, <name>):
\* the name, the class, its VIEW and its prerequisite.
All == Reg("All", "All", "CloudProvidersView", ServerLoggedIn)

New == Reg("Add", "New", "CloudProviderAddView", Sibling("All"))

Discover == Reg("Discover", "Discover", "CloudProvidersDiscoverView", Sibling("All"))

Details == Reg("Details", "Details", "CloudProviderDetailsView", Sibling("All"))

Edit == Reg("Edit", "Edit", "CloudProviderEditView", Sibling("All"))

EditFromDetails ==
    Reg("EditFromDetails", "EditFromDetails", "CloudProviderEditView", Sibling("Details"))

ManagePolicies ==
    Reg("ManagePolicies", "ManagePolicies", "ProvidersManagePoliciesView", Sibling("All"))

ManagePoliciesFromDetails ==
    Reg("ManagePoliciesFromDetails", "ManagePoliciesFromDetails",
        "ProvidersManagePoliciesView", Sibling("Details"))

EditTags == Reg("EditTags", "EditTags", "ProvidersEditTagsView", Sibling("All"))

EditTagsFromDetails ==
    Reg("EditTagsFromDetails", "EditTagsFromDetails", "ProvidersEditTagsView",
        Sibling("Details"))

Timelines ==
    Reg("Timelines", "Timelines", "CloudProviderTimelinesView", Sibling("Details"))

Instances == Reg("Instances", "Instances", "None", Sibling("Details"))

Images == Reg("Images", "Images", "None", Sibling("Details"))

\* Timelines registered with the prerequisite of the steps above it in the file.
RegistrationsTimelinesFromAll ==
    << All, New, Discover, Details, Edit, EditFromDetails, ManagePolicies,
       ManagePoliciesFromDetails, EditTags, EditTagsFromDetails,
       Reg("Timelines", "Timelines", "CloudProviderTimelinesView", Sibling("All")),
       Instances, Images >>

\* A fourteenth step registered for CloudProvider.
RegistrationsWithTopology ==
    << All, New, Discover, Details, Edit, EditFromDetails, ManagePolicies,
       ManagePoliciesFromDetails, EditTags, EditTagsFromDetails, Timelines,
       Instances, Images,
       Reg("Topology", "Topology", "CloudProviderDetailsView", Sibling("Details")) >>

\* Details registered with the listing's view.
RegistrationsDetailsListView ==
    << All, New, Discover,
       Reg("Details", "Details", "CloudProvidersView", Sibling("All")),
       Edit, EditFromDetails, ManagePolicies, ManagePoliciesFromDetails, EditTags,
       EditTagsFromDetails, Timelines, Instances, Images >>

\* All registered with the view of the step after it.
RegistrationsAllAddView ==
    << Reg("All", "All", "CloudProviderAddView", ServerLoggedIn),
       New, Discover, Details, Edit, EditFromDetails, ManagePolicies,
       ManagePoliciesFromDetails, EditTags, EditTagsFromDetails, Timelines,
       Instances, Images >>

\* Details registered with a prerequisite that leads back to it.
RegistrationsDetailsCycle ==
    << All, New, Discover,
       Reg("Details", "Details", "CloudProviderDetailsView", Sibling("Timelines")),
       Edit, EditFromDetails, ManagePolicies, ManagePoliciesFromDetails, EditTags,
       EditTagsFromDetails, Timelines, Instances, Images >>

\* The @navigator.register(CloudProvider, ...) decorators, in source order.
Registrations ==
    << All, New, Discover, Details, Edit, EditFromDetails, ManagePolicies,
       ManagePoliciesFromDetails, EditTags, EditTagsFromDetails, Timelines,
       Instances, Images >>

\* The registry before this module is imported: the appliance server's root step.
BaseRegistry ==
    [k \in {ServerLoggedIn} |->
        [cls |-> "LoggedIn", view |-> "BaseLoggedInPage", prerequisite |-> Root]]

\* navigator.register(cls, name): the latest registration of a key wins.
RegisterStep(reg, r) ==
    [k \in DOMAIN reg \cup {Sibling(r.name)} |->
        IF k = Sibling(r.name)
        THEN [cls |-> r.cls, view |-> r.view, prerequisite |-> r.prerequisite]
        ELSE reg[k]]

\* Names a test may ask for: the registered ones and some that are not.
StepNames ==
    {Registrations[i].name : i \in 1..Len(Registrations)} \cup {"LoggedIn", "Topology"}

ObjectTypes == {CloudProvider, Server}

\* ------------------------------------------------------------ the browser

Loc(page, prov) == [page |-> page, prov |-> prov]

PlainPages == {"Login", "Dashboard", "Infra", "All", "Add", "Discover"}

ProviderPages ==
    {"Details", "Edit", "ManagePolicies", "EditTags", "Timelines", "Instances", "Images"}

Locations ==
    {Loc(p, NoProv) : p \in PlainPages}
        \cup {Loc(p, n) : p \in ProviderPages, n \in ProviderNames}

\* What match_location reads from the page the browser shows.
Controller(l) ==
    CASE l.page = "Login" -> "login"
      [] l.page = "Dashboard" -> "dashboard"
      [] l.page = "Infra" -> "ems_infra"
      [] OTHER -> "ems_cloud"

Title(l) ==
    CASE l.page = "Login" -> "Login"
      [] l.page = "Dashboard" -> "Dashboard"
      [] l.page = "Infra" -> "Infrastructure Providers"
      [] OTHER -> "Cloud Providers"

\* '{} (All Instances)'.format(name): the name followed by the literal text.
Format(name, suffix) == [name |-> name, suffix |-> suffix]

Summary(l) ==
    CASE l.page = "Details" -> Format(l.prov, " (Summary)")
      [] l.page = "Instances" -> Format(l.prov, " (All Instances)")
      [] l.page = "Images" -> Format(l.prov, " (All Images)")
      [] l.page = "Timelines" -> Format(l.prov, " (Timelines)")
      [] l.page = "Edit" -> Format(l.prov, " (Edit)")
      [] l.page = "ManagePolicies" -> Format(l.prov, " (Policy Assignment)")
      [] l.page = "EditTags" -> Format(l.prov, " (Tag Assignment)")
      [] OTHER -> Format(NoProv, l.page)

match_location(l, controller, title, summary) ==
    /\ Controller(l) = controller
    /\ Title(l) = title
    /\ Summary(l) = summary

\* match_page = partial(match_location, controller='ems_cloud', title='Cloud Providers')
match_page(l, summary) == match_location(l, "ems_cloud", "Cloud Providers", summary)

logged_in_as_current_user(l) == l.page # "Login"

\* navigation.currently_selected == ['Compute', 'Clouds', 'Providers']
currently_selected(l) ==
    CASE Controller(l) = "ems_cloud" -> <<"Compute", "Clouds", "Providers">>
      [] Controller(l) = "ems_infra" -> <<"Compute", "Infrastructure", "Providers">>
      [] Controller(l) = "dashboard" -> <<"Cloud Intel", "Dashboard">>
      [] OTHER -> <<>>

\* BaseLoggedInPage.is_displayed, the class after TimelinesView in the MRO.
BaseLoggedInPageIsDisplayed(l) == logged_in_as_current_user(l)

\* CloudProviderTimelinesView.is_displayed: super(TimelinesView, self) skips
\* TimelinesView's own check and lands on the next class of the MRO.
CloudProviderTimelinesViewIsDisplayed(l) ==
    /\ logged_in_as_current_user(l)
    /\ currently_selected(l) = <<"Compute", "Clouds", "Providers">>
    /\ BaseLoggedInPageIsDisplayed(l)

\* is_displayed of the views imported from cfme.common.provider_views.
ViewIsDisplayed(view, o, l) ==
    CASE view = "BaseLoggedInPage" -> BaseLoggedInPageIsDisplayed(l)
      [] view = "CloudProvidersView" -> l = Loc("All", NoProv)
      [] view = "CloudProviderAddView" -> l = Loc("Add", NoProv)
      [] view = "CloudProvidersDiscoverView" -> l = Loc("Discover", NoProv)
      [] view = "CloudProviderDetailsView" -> l = Loc("Details", o)
      [] view = "CloudProviderEditView" -> l = Loc("Edit", o)
      [] view = "ProvidersManagePoliciesView" -> l = Loc("ManagePolicies", o)
      [] view = "ProvidersEditTagsView" -> l = Loc("EditTags", o)
      [] view = "CloudProviderTimelinesView" ->
            CloudProviderTimelinesViewIsDisplayed(l)
      [] OTHER -> FALSE

\* Instances.am_i_here with the summary of Images.am_i_here.
InstancesAmIHereImages(o, l) == match_page(l, Format(o, " (All Images)"))

\* Instances.am_i_here
InstancesAmIHere(o, l) == match_page(l, Format(o, " (All Instances)"))

\* Images.am_i_here
ImagesAmIHere(o, l) == match_page(l, Format(o, " (All Images)"))

\* The arrival check of a registered step: am_i_here where the class defines
\* it, the view's is_displayed otherwise.
ArrivalCheck(reg, key, o, l) ==
    CASE reg[key].cls = "Instances" -> InstancesAmIHere(o, l)
      [] reg[key].cls = "Images" -> ImagesAmIHere(o, l)
      [] OTHER -> ViewIsDisplayed(reg[key].view, o, l)

\* -------------------------------------------------------- the step actions

\* What one step() leaves behind: whether it raised, where the browser is, and
\* which quadicons of the listing are checked.
Outcome(raised, l, c) == [raised |-> raised, loc |-> l, checked |-> c]

\* A click (or item_select) of the widget library. An element that is not on
\* the page raises; one that is may load the page it leads to, may leave the
\* page as it is, or may raise (not clickable, timed out).
Click(present, l, dest, c) ==
    IF ~present
    THEN {Outcome(TRUE, l, c)}
    ELSE {Outcome(FALSE, dest, {}), Outcome(FALSE, l, c), Outcome(TRUE, l, c)}

\* The listing's quadicon of a provider: items.get_item(by_name=name).
HasItem(o, l, provs) == l = Loc("All", NoProv) /\ o \in provs

\* The LoggedIn step of appliance.server: log in from wherever the browser is.
LoggedInStep(o, l, provs, c) == Click(TRUE, l, Loc("Dashboard", NoProv), c)

\* All.step: navigation.select('Compute', 'Clouds', 'Providers')
AllStep(o, l, provs, c) ==
    Click(logged_in_as_current_user(l), l, Loc("All", NoProv), c)

\* New.step: toolbar.configuration.item_select('Add a New Cloud Provider')
NewStep(o, l, provs, c) == Click(l = Loc("All", NoProv), l, Loc("Add", NoProv), c)

\* Discover.step: toolbar.configuration.item_select('Discover Cloud Providers')
DiscoverStep(o, l, provs, c) ==
    Click(l = Loc("All", NoProv), l, Loc("Discover", NoProv), c)

\* Details.step: items.get_item(by_name=self.obj.name).click()
DetailsStep(o, l, provs, c) == Click(HasItem(o, l, provs), l, Loc("Details", o), c)

\* get_item(by_name=name).check() and then a toolbar item_select: the second
\* call runs only when the first did not raise, on a listing with the item checked.
CheckThenSelect(o, l, provs, c, page) ==
    IF ~HasItem(o, l, provs)
    THEN {Outcome(TRUE, l, c)}
    ELSE Click(TRUE, l, Loc(page, o), c \cup {o})

\* Edit.step that looks for no quadicon of the provider before it selects.
EditStepNoItem(o, l, provs, c) == Click(l = Loc("All", NoProv), l, Loc("Edit", o), c)

\* Edit.step
EditStep(o, l, provs, c) == CheckThenSelect(o, l, provs, c, "Edit")

\* ManagePolicies.step
ManagePoliciesStep(o, l, provs, c) == CheckThenSelect(o, l, provs, c, "ManagePolicies")

\* EditTags.step
EditTagsStep(o, l, provs, c) == CheckThenSelect(o, l, provs, c, "EditTags")

\* A toolbar item or info block of the details screen the browser shows: it
\* leads to the page of the provider shown, whatever object was asked for.
FromDetails(l, c, page) == Click(l.page = "Details", l, Loc(page, l.prov), c)

\* EditFromDetails.step: toolbar.configuration.item_select('Edit this Cloud Provider')
EditFromDetailsStep(o, l, provs, c) == FromDetails(l, c, "Edit")

\* ManagePoliciesFromDetails.step: toolbar.policy.item_select('Manage Policies')
ManagePoliciesFromDetailsStep(o, l, provs, c) == FromDetails(l, c, "ManagePolicies")

\* EditTagsFromDetails.step: toolbar.policy.item_select('Edit Tags')
EditTagsFromDetailsStep(o, l, provs, c) == FromDetails(l, c, "EditTags")

\* Timelines.step: toolbar.monitoring.item_select('Timelines')
TimelinesStep(o, l, provs, c) == FromDetails(l, c, "Timelines")

\* Instances.step: sel.click(InfoBlock.element('Relationships', 'Instances'))
InstancesStep(o, l, provs, c) == FromDetails(l, c, "Instances")

\* Images.step: sel.click(InfoBlock.element('Relationships', 'Images'))
ImagesStep(o, l, provs, c) == FromDetails(l, c, "Images")

\* step() of the class a key is registered with.
Step(cls, o, l, provs, c) ==
    CASE cls = "LoggedIn" -> LoggedInStep(o, l, provs, c)
      [] cls = "All" -> AllStep(o, l, provs, c)
      [] cls = "New" -> NewStep(o, l, provs, c)
      [] cls = "Discover" -> DiscoverStep(o, l, provs, c)
      [] cls = "Details" -> DetailsStep(o, l, provs, c)
      [] cls = "Edit" -> EditStep(o, l, provs, c)
      [] cls = "EditFromDetails" -> EditFromDetailsStep(o, l, provs, c)
      [] cls = "ManagePolicies" -> ManagePoliciesStep(o, l, provs, c)
      [] cls = "ManagePoliciesFromDetails" ->
            ManagePoliciesFromDetailsStep(o, l, provs, c)
      [] cls = "EditTags" -> EditTagsStep(o, l, provs, c)
      [] cls = "EditTagsFromDetails" -> EditTagsFromDetailsStep(o, l, provs, c)
      [] cls = "Timelines" -> TimelinesStep(o, l, provs, c)
      [] cls = "Instances" -> InstancesStep(o, l, provs, c)
      [] cls = "Images" -> ImagesStep(o, l, provs, c)
      [] OTHER -> {Outcome(TRUE, l, c)}

\* All.resetter: grid view selected, every quadicon unchecked (check_all then
\* uncheck_all) when the paginator exists. The other steps have no resetter.
Resetter(cls, provs, grid, c) ==
    IF cls = "All"
    THEN [gridView |-> TRUE, checked |-> IF provs # {} THEN {} ELSE c]
    ELSE [gridView |-> grid, checked |-> c]

\* ------------------------------------------------------------ the resolver

\* The steps of key's prerequisite chain that have to run, oldest first: the
\* walk back stops at the first step whose arrival check holds, or at the root.
RECURSIVE ResolvePath(_, _, _, _, _)
ResolvePath(reg, key, o, l, fuel) ==
    IF fuel = 0 \/ key \notin DOMAIN reg THEN <<>>
    ELSE IF ArrivalCheck(reg, key, o, l) THEN <<>>
    ELSE Append(ResolvePath(reg, reg[key].prerequisite, o, l, fuel - 1), key)

\* The whole chain of a key, root first, whatever the browser shows.
RECURSIVE Chain(_, _, _)
Chain(reg, key, fuel) ==
    IF fuel = 0 \/ key \notin DOMAIN reg THEN <<>>
    ELSE Append(Chain(reg, reg[key].prerequisite, fuel - 1), key)

Fuel(reg) == Cardinality(DOMAIN reg) + 1

\* ------------------------------------------------ the listing and its pages

\* The href of a quadicon's link, as its path segments.
Href(controller, n) == <<controller, "show", n>>

\* XPath contains(@href, '<marker>/show'): the two segments, one after the other.
HrefContains(href, marker) ==
    \E i \in 1..(Len(href) - 1) : href[i] = marker /\ href[i + 1] = "show"

\* The number of members of s below n: n's place in the sorted listing.
Rank(s, n) == Cardinality({m \in s : m < n})

\* The quadicon links page k of the listing shows: cloud providers on the
\* cloud listing, infrastructure providers on the infrastructure one.
PageLinks(l, inv, k) ==
    LET shown == {n \in inv : Rank(inv, n) \div PageSize = k - 1}
    IN  CASE l.page = "All" ->
               {[href |-> Href("ems_cloud", n), title |-> n] : n \in shown}
          [] l.page = "Infra" ->
               {[href |-> Href("ems_infra", n), title |-> n] : n \in shown}
          [] OTHER -> {}

\* Whether the paginator's next button is enabled on page k.
HasNextPage(l, inv, k) ==
    /\ l.page \in {"All", "Infra"}
    /\ k * PageSize < Cardinality(inv)

\* paginator.items_amount: the count as the text the widget shows.
RECURSIVE Digits(_)
Digits(n) == IF n < 10 THEN <<n>> ELSE Append(Digits(n \div 10), n % 10)

items_amount(inv) == Digits(Cardinality(inv))

\* int(text)
RECURSIVE int(_)
int(text) ==
    IF Len(text) = 0 THEN 0
    ELSE 10 * int(SubSeq(text, 1, Len(text) - 1)) + text[Len(text)]

\* ------------------------------------------------------------------ state

VARIABLES
    registry,     \* navigator's table: (object type, step name) -> step
    regIdx,       \* decorators of this module already run
    overrides,    \* registrations that replaced an earlier one
    loc,          \* the page the browser shows
    inventory,    \* the cloud providers the appliance knows
    checked,      \* quadicons checked on the listing
    gridView,     \* 'Grid View' is the selected view
    pc,           \* navigate_to: idle, exec, verify, done
    target,       \* the key navigate_to was asked for
    obj,          \* the provider it was asked for
    loc0,         \* the browser's page when navigate_to was called
    ui0,          \* the checked quadicons and the view mode at that time
    path,         \* the steps resolved to run, oldest first
    pending,      \* those of them not run yet
    executed,     \* the steps whose step() was called, in order
    result,       \* what navigate_to ended in
    failed,       \* the step its error names
    fn,           \* the function the test called
    fpc,          \* where that function is
    args,         \* its arguments
    events,       \* what it did to the browser, in order
    form,         \* the discover form's fields
    requested,    \* a discovery request was sent
    providers,    \* get_all_providers: the set it builds
    found,        \* get_all_providers: every element sel.elements returned
    pageNo,       \* the paginator's page
    elapsed,      \* wait_for: seconds since it started
    polls,        \* wait_for: calls of the polled function
    refreshes,    \* wait_for: calls of fail_func
    out,          \* wait_for: the last value polled
    fresult       \* how the function ended: returned, or the error raised

regVars == <<registry, regIdx, overrides>>

browserVars == <<loc, checked, gridView>>

navVars == <<pc, target, obj, loc0, ui0, path, pending, executed, result, failed>>

fnVars == <<fn, fpc, args, events, form, requested, providers, found, pageNo,
            elapsed, polls, refreshes, out, fresult>>

vars == <<regVars, browserVars, inventory, navVars, fnVars>>

NoKey == <<"none", "none">>

NoArgs == [none |-> TRUE]

Imported == regIdx = Len(Registrations)

Init ==
    /\ registry = BaseRegistry
    /\ regIdx = 0
    /\ overrides = 0
    /\ loc = Loc("Login", NoProv)
    /\ inventory = {}
    /\ checked = {}
    /\ gridView = TRUE
    /\ pc = "idle"
    /\ target = NoKey
    /\ obj = NoProv
    /\ loc0 = loc
    /\ ui0 = <<checked, gridView>>
    /\ path = <<>>
    /\ pending = <<>>
    /\ executed = <<>>
    /\ result = "none"
    /\ failed = NoKey
    /\ fn = "none"
    /\ fpc = "none"
    /\ args = NoArgs
    /\ events = <<>>
    /\ form = <<>>
    /\ requested = FALSE
    /\ providers = {}
    /\ found = {}
    /\ pageNo = 1
    /\ elapsed = 0
    /\ polls = 0
    /\ refreshes = 0
    /\ out = 0
    /\ fresult = "none"

\* ------------------------------------------------------------ registration

\* One @navigator.register decorator runs as the module is imported.
Register ==
    /\ regIdx < Len(Registrations)
    /\ LET r == Registrations[regIdx + 1]
       IN  /\ registry' = RegisterStep(registry, r)
           /\ overrides' =
                  IF Sibling(r.name) \in DOMAIN registry THEN overrides + 1 ELSE overrides
    /\ regIdx' = regIdx + 1
    /\ UNCHANGED <<browserVars, inventory, navVars, fnVars>>

\* ------------------------------------------------------------- environment

\* The appliance learns of a provider (a discovery finished, another test added it).
ProviderAppears ==
    /\ \E n \in ProviderNames \ inventory : inventory' = inventory \cup {n}
    /\ UNCHANGED <<regVars, browserVars, navVars, fnVars>>

\* Between two calls the test drives the browser somewhere else.
TestBrowses ==
    /\ Imported
    /\ fn = "none"
    /\ \E l \in Locations, g \in BOOLEAN :
          /\ l # loc \/ g # gridView
          /\ loc' = l
          /\ gridView' = g
          /\ loc0' = l
          /\ ui0' = <<{}, g>>
    /\ checked' = {}
    /\ UNCHANGED <<regVars, inventory, pc, target, obj, path, pending, executed,
                   result, failed, fnVars>>

\* ------------------------------------------------------------- navigate_to

\* navigate_to(type, name) for object o, up to the first step to run: the
\* lookup, the arrival check of the target, the resolution of the path.
navigate_to(type, name, o) ==
    LET key == <<type, name>>
    IN  /\ target' = key
        /\ obj' = o
        /\ loc0' = loc
        /\ ui0' = <<checked, gridView>>
        /\ executed' = <<>>
        /\ failed' = NoKey
        /\ UNCHANGED loc
        /\ IF key \notin DOMAIN registry
           THEN /\ result' = "UnknownStepError"
                /\ pc' = "done"
                /\ path' = <<>>
                /\ pending' = <<>>
                /\ UNCHANGED <<checked, gridView>>
           ELSE IF ArrivalCheck(registry, key, o, loc)
           THEN /\ result' = "view"
                /\ pc' = "done"
                /\ path' = <<>>
                /\ pending' = <<>>
                /\ \E reset \in BOOLEAN :
                      LET r == Resetter(registry[key].cls, inventory, gridView, checked)
                      IN  /\ gridView' = IF reset THEN r.gridView ELSE gridView
                          /\ checked' = IF reset THEN r.checked ELSE checked
           ELSE /\ result' = "none"
                /\ pc' = "exec"
                /\ path' = ResolvePath(registry, key, o, loc, Fuel(registry))
                /\ pending' = path'
                /\ UNCHANGED <<checked, gridView>>

\* The oldest step not run yet runs: its step() is called once, and an error
\* it raises ends the navigation.
ExecStep ==
    /\ pc = "exec"
    /\ LET key == Head(pending)
       IN  \E o \in Step(registry[key].cls, obj, loc, inventory, checked) :
              /\ executed' = Append(executed, key)
              /\ pending' = Tail(pending)
              /\ loc' = o.loc
              /\ checked' = o.checked
              /\ IF o.raised
                 THEN /\ result' = "NavigationFailure"
                      /\ failed' = key
                      /\ pc' = "done"
                 ELSE /\ pc' = IF Tail(pending) = <<>> THEN "verify" ELSE "exec"
                      /\ UNCHANGED <<result, failed>>
    /\ UNCHANGED <<regVars, gridView, inventory, target, obj, loc0, ui0, path, fnVars>>

\* After the last step the target's arrival check decides.
Verify ==
    /\ pc = "verify"
    /\ pc' = "done"
    /\ IF ArrivalCheck(registry, target, obj, loc)
       THEN result' = "view" /\ UNCHANGED failed
       ELSE result' = "NavigationVerificationError" /\ failed' = target
    /\ UNCHANGED <<regVars, browserVars, inventory, target, obj, loc0, ui0, path,
                   pending, executed, fnVars>>

\* ---------------------------------------------------------------- the calls

Idle == Imported /\ fn = "none"

Begin(f, a) ==
    /\ fn' = f
    /\ args' = a
    /\ events' = <<>>
    /\ form' = <<>>
    /\ requested' = FALSE
    /\ providers' = {}
    /\ found' = {}
    /\ pageNo' = 1
    /\ elapsed' = 0
    /\ polls' = 0
    /\ refreshes' = 0
    /\ out' = 0
    /\ fresult' = "none"

\* A test calls navigate_to itself.
CallNavigateTo ==
    /\ Idle
    /\ \E type \in ObjectTypes, name \in StepNames, o \in ProviderNames :
          /\ navigate_to(type, name, o)
          /\ Begin("navigate_to", [type |-> type, name |-> name, o |-> o])
    /\ fpc' = "nav"
    /\ UNCHANGED <<regVars, inventory>>

\* navigate_to is over: its error propagates out of the function that called
\* it, its view is what the function goes on with.
AfterNavigate ==
    /\ fn # "none"
    /\ fpc = "nav"
    /\ pc = "done"
    /\ IF result = "view"
       THEN /\ events' = Append(events, "navigate_to")
            /\ fpc' = CASE fn = "discover" -> "fill"
                        [] fn = "get_all_providers" -> "pages"
                        [] fn = "wait_for_a_provider" -> "poll"
                        [] OTHER -> "done"
            /\ fresult' = IF fn = "navigate_to" THEN "returned" ELSE fresult
       ELSE /\ fpc' = "done"
            /\ fresult' = result
            /\ UNCHANGED events
    /\ UNCHANGED <<regVars, browserVars, inventory, navVars, fn, args, form,
                   requested, providers, found, pageNo, elapsed, polls,
                   refreshes, out>>

\* The function is over and the test goes on.
Return ==
    /\ fn # "none"
    /\ fpc = "done"
    /\ fn' = "none"
    /\ fpc' = "none"
    /\ args' = NoArgs
    /\ events' = <<>>
    /\ form' = <<>>
    /\ requested' = FALSE
    /\ providers' = {}
    /\ found' = {}
    /\ pageNo' = 1
    /\ elapsed' = 0
    /\ polls' = 0
    /\ refreshes' = 0
    /\ out' = 0
    /\ fresult' = "none"
    /\ pc' = "idle"
    /\ target' = NoKey
    /\ obj' = NoProv
    /\ loc0' = loc
    /\ ui0' = <<checked, gridView>>
    /\ path' = <<>>
    /\ pending' = <<>>
    /\ executed' = <<>>
    /\ result' = "none"
    /\ failed' = NoKey
    /\ UNCHANGED <<regVars, browserVars, inventory>>

\* ------------------------------------------------------- get_all_providers

\* get_all_providers(do_not_navigate): navigate to 'All' unless told not to.
get_all_providers ==
    /\ Idle
    /\ \E do_not_navigate \in BOOLEAN :
          /\ Begin("get_all_providers", [do_not_navigate |-> do_not_navigate])
          /\ IF ~do_not_navigate
             THEN navigate_to(CloudProvider, "All", NoProv) /\ fpc' = "nav"
             ELSE fpc' = "pages" /\ UNCHANGED <<browserVars, navVars>>
    /\ UNCHANGED <<regVars, inventory>>

\* The titles of every quadicon link of the page, whatever its href.
PageTitlesAnyHref(links) == {e.title : e \in links}

\* The titles of the elements the XPath selects on the page shown.
PageTitles(links) == {e.title : e \in {x \in links : HrefContains(x.href, link_marker)}}

\* One turn of `for page in paginator.pages()`: the paginator goes to the
\* first page, then to each next one, and the body adds the page's titles;
\* with no next page the loop ends and the set is returned.
get_all_providers_page ==
    /\ fn = "get_all_providers"
    /\ fpc \in {"pages", "next"}
    /\ IF fpc = "pages" \/ HasNextPage(loc, inventory, pageNo)
       THEN LET k == IF fpc = "pages" THEN 1 ELSE pageNo + 1
                links == PageLinks(loc, inventory, k)
            IN  /\ pageNo' = k
                /\ found' = found \cup {[page |-> k, link |-> e] : e \in links}
                /\ providers' = providers \cup PageTitles(links)
                /\ events' = Append(events, "page")
                /\ fpc' = "next"
                /\ UNCHANGED fresult
       ELSE /\ fpc' = "done"
            /\ fresult' = "returned"
            /\ UNCHANGED <<pageNo, found, providers, events>>
    /\ UNCHANGED <<regVars, browserVars, inventory, navVars, fn, args, form,
                   requested, elapsed, polls, refreshes, out>>

\* ----------------------------------------------------------------- discover

\* A credential: principal, secret, verify_secret.
Credentials ==
    {[principal |-> "admin", secret |-> s, verify_secret |-> v] :
        s \in {"foobar"}, v \in {"foobar", "typo"}}

DiscoverTypes == {"Amazon", "Azure"}

\* discover(credential, cancel, d_type): navigate to 'Discover'.
discover ==
    /\ Idle
    /\ \E credential \in Credentials, cancel \in BOOLEAN, d_type \in DiscoverTypes :
          Begin("discover",
                [credential |-> credential, cancel |-> cancel, d_type |-> d_type])
    /\ navigate_to(CloudProvider, "Discover", NoProv)
    /\ fpc' = "nav"
    /\ UNCHANGED <<regVars, inventory>>

\* view.fill({...}) with the four fields.
discover_fill ==
    /\ fn = "discover"
    /\ fpc = "fill"
    /\ form' = [discover_type |-> args.d_type,
                username |-> args.credential.principal,
                password |-> args.credential.secret,
                password_verify |-> args.credential.verify_secret]
    /\ events' = Append(events, "fill")
    /\ fpc' = "click"
    /\ UNCHANGED <<regVars, browserVars, inventory, navVars, fn, args, requested,
                   providers, found, pageNo, elapsed, polls, refreshes, out, fresult>>

\* The appliance starts a discovery only for a form whose passwords agree.
FormValid(f) == f.password = f.password_verify

\* The branches of `if cancel` the other way round.
DiscoverButtonSwapped(cancel) == IF cancel THEN "start" ELSE "cancel"

\* The button discover clicks.
DiscoverButton(cancel) == IF cancel THEN "cancel" ELSE "start"

\* view.cancel.click() or view.start.click(); the function returns at once.
discover_click ==
    /\ fn = "discover"
    /\ fpc = "click"
    /\ LET button == DiscoverButton(args.cancel)
       IN  /\ events' = Append(events, button)
           /\ requested' = (button = "start" /\ FormValid(form))
           /\ loc' = IF button = "start" /\ ~FormValid(form)
                     THEN loc
                     ELSE Loc("All", NoProv)
    /\ fpc' = "done"
    /\ fresult' = "returned"
    /\ UNCHANGED <<regVars, checked, gridView, inventory, navVars, fn, args, form,
                   providers, found, pageNo, elapsed, polls, refreshes, out>>

\* ------------------------------------------------------ wait_for_a_provider

\* wait_for_a_provider(): navigate to 'All'.
wait_for_a_provider ==
    /\ Idle
    /\ Begin("wait_for_a_provider", NoArgs)
    /\ navigate_to(CloudProvider, "All", NoProv)
    /\ fpc' = "nav"
    /\ UNCHANGED <<regVars, inventory>>

\* The length of the text in place of its value.
PolledCountLen(inv) == Len(items_amount(inv))

\* lambda: int(view.paginator.items_amount)
PolledCount(inv) == int(items_amount(inv))

\* One turn of wait_for: the count is polled; a count other than
\* fail_condition is returned; after a count equal to it fail_func (the
\* browser's refresh) runs, time passes, and past num_sec TimedOutError is raised.
wait_for ==
    /\ fn = "wait_for_a_provider"
    /\ fpc = "poll"
    /\ LET n == PolledCount(inventory)
       IN  /\ out' = n
           /\ polls' = polls + 1
           /\ IF n # fail_condition
              THEN /\ fpc' = "done"
                   /\ fresult' = "returned"
                   /\ events' = Append(events, "poll")
                   /\ UNCHANGED <<elapsed, refreshes, checked>>
              ELSE \E cost \in {PollCost, 2 * PollCost} :
                      /\ refreshes' = refreshes + 1
                      /\ checked' = {}
                      /\ events' = events \o <<"poll", "refresh">>
                      /\ elapsed' = elapsed + cost
                      /\ IF elapsed' > num_sec
                         THEN fpc' = "done" /\ fresult' = "TimedOutError"
                         ELSE fpc' = "poll" /\ UNCHANGED fresult
    /\ UNCHANGED <<regVars, loc, gridView, inventory, navVars, fn, args, form,
                   requested, providers, found, pageNo>>

\* -------------------------------------------------------- the specification

Program ==
    \/ Register
    \/ CallNavigateTo
    \/ ExecStep
    \/ Verify
    \/ AfterNavigate
    \/ Return
    \/ get_all_providers
    \/ get_all_providers_page
    \/ discover
    \/ discover_fill
    \/ discover_click
    \/ wait_for_a_provider
    \/ wait_for

Next == Program \/ ProviderAppears \/ TestBrowses

Spec == Init /\ [][Next]_vars

\* The driver is one thread that runs each call to its end.
FairSpec == Spec /\ WF_vars(Program)

\* ------------------------------------------------------------ the claims

IsPrefix(a, b) == Len(a) <= Len(b) /\ SubSeq(b, 1, Len(a)) = a

IsSuffix(a, b) == Len(a) <= Len(b) /\ SubSeq(b, Len(b) - Len(a) + 1, Len(b)) = a

NoRepeat(a) == \A i, j \in 1..Len(a) : a[i] = a[j] => i = j

\* navigate_to has just ended and nothing has acted on its result yet.
NavEnded == pc = "done" /\ fpc = "nav"

TargetRegistered == target \in DOMAIN registry

\* The thirteen names this module registers for CloudProvider.
CloudProviderSteps ==
    {"All", "Add", "Discover", "Details", "Edit", "EditFromDetails",
     "ManagePolicies", "ManagePoliciesFromDetails", "EditTags",
     "EditTagsFromDetails", "Timelines", "Instances", "Images"}

\* C1: a navigate_to whose target's arrival check held when it was called
\* runs no step() at all, resolves no path, returns the view and leaves the
\* browser on the page it was on; so for 'Instances' and 'Images' called on
\* the provider's own instances or images page, and for 'All' on the listing.
C1_AlreadyThere ==
    /\ (pc # "idle" /\ fpc = "nav" /\ TargetRegistered
            /\ ArrivalCheck(registry, target, obj, loc0))
          => /\ executed = <<>>
             /\ path = <<>>
             /\ pc = "done"
             /\ result = "view"
             /\ loc = loc0
    /\ (pc # "idle" /\ fpc = "nav"
            /\ \/ target = Sibling("Instances") /\ loc0 = Loc("Instances", obj)
               \/ target = Sibling("Images") /\ loc0 = Loc("Images", obj)
               \/ target = Sibling("All") /\ loc0 = Loc("All", NoProv))
          => executed = <<>> /\ result = "view" /\ loc = loc0

C1_Witness ==
    /\ NavEnded
    /\ target = Sibling("Instances")
    /\ obj = 2
    /\ loc0 = Loc("Instances", 2)
    /\ executed = <<>>
    /\ result = "view"
    /\ loc = loc0

\* No step of the target's chain had its arrival check true at the call.
NoneSatisfied ==
    \A i \in 1..Len(Chain(registry, target, Fuel(registry))) :
        ~ArrivalCheck(registry, Chain(registry, target, Fuel(registry))[i], obj, loc0)

C3_UnknownStep ==
    (pc # "idle" /\ fpc = "nav"
        /\ \/ ~TargetRegistered
           \/ target[1] = CloudProvider /\ target[2] \notin CloudProviderSteps)
      => /\ pc = "done"
         /\ result = "UnknownStepError"
         /\ executed = <<>>
         /\ path = <<>>
         /\ loc = loc0
         /\ <<checked, gridView>> = ui0

C3_Witness ==
    /\ NavEnded
    /\ target = Sibling("Topology")
    /\ result = "UnknownStepError"
    /\ loc0 = Loc("All", NoProv)
    /\ loc = loc0

\* Every step of a non-empty resolved path has run and none raised.
AllActionsRan == path # <<>> /\ executed = path /\ result # "NavigationFailure"

\* C4: when every action of the path ran without an error and the target's
\* arrival check is false on the page the browser then shows, navigate_to
\* ends in NavigationVerificationError naming the target, never in a view or
\* another error; so for 'Details' whenever the page is not the provider's details.
C4_VerificationError ==
    /\ (NavEnded /\ AllActionsRan /\ ~ArrivalCheck(registry, target, obj, loc))
          => result = "NavigationVerificationError" /\ failed = target
    /\ (NavEnded /\ AllActionsRan /\ target = Sibling("Details")
            /\ loc # Loc("Details", obj))
          => result = "NavigationVerificationError" /\ failed = Sibling("Details")
    /\ result = "NavigationVerificationError"
          => AllActionsRan /\ ~ArrivalCheck(registry, target, obj, loc0)

C4_Witness ==
    /\ NavEnded
    /\ target = Sibling("Details")
    /\ executed = <<ServerLoggedIn, Sibling("All"), Sibling("Details")>>
    /\ loc = Loc("All", NoProv)
    /\ result = "NavigationVerificationError"
    /\ failed = Sibling("Details")

\* C5: 'Details' asked for on the 'All' listing runs Details.step and nothing
\* else, and returns the view exactly when the browser then shows the
\* details page of the provider asked for.
C5_DetailsFromAll ==
    /\ (pc # "idle" /\ fpc = "nav" /\ target = Sibling("Details")
            /\ loc0 = Loc("All", NoProv))
          => /\ path = <<Sibling("Details")>>
             /\ IsPrefix(executed, path)
    /\ (NavEnded /\ target = Sibling("Details") /\ loc0 = Loc("All", NoProv))
          => /\ executed = <<Sibling("Details")>>
             /\ result = "view" <=> loc = Loc("Details", obj)

C5_Witness ==
    /\ NavEnded
    /\ target = Sibling("Details")
    /\ loc0 = Loc("All", NoProv)
    /\ obj = 1
    /\ executed = <<Sibling("Details")>>
    /\ result = "view"
    /\ loc = Loc("Details", 1)

\* C9: a navigation that ended in NavigationFailure names the step whose
\* step() was called last; every step was called at most once, in path
\* order, and the steps after the failing one were never called. What a call
\* runs is resolved from the registry and the page shown at that call alone.
\* So 'Edit' asked for on the listing for a provider the listing does not
\* show fails in Edit.step with the page and the checkboxes as they were.
C9_NavigationFailure ==
    /\ pc # "idle" => executed \o pending = path /\ NoRepeat(path)
    /\ result = "NavigationFailure"
          => /\ executed # <<>>
             /\ failed = executed[Len(executed)]
             /\ pc = "done"
    /\ result # "NavigationFailure" /\ result # "NavigationVerificationError"
          => failed = NoKey
    /\ pc # "idle"
          => path = IF TargetRegistered /\ ~ArrivalCheck(registry, target, obj, loc0)
                    THEN ResolvePath(registry, target, obj, loc0, Fuel(registry))
                    ELSE <<>>
    /\ (NavEnded /\ target = Sibling("Edit") /\ loc0 = Loc("All", NoProv)
            /\ obj \notin inventory)
          => /\ result = "NavigationFailure"
             /\ failed = Sibling("Edit")
             /\ executed = <<Sibling("Edit")>>
             /\ loc = loc0
             /\ checked = ui0[1]

C9_Witness ==
    /\ NavEnded
    /\ result = "NavigationFailure"
    /\ target = Sibling("EditFromDetails")
    /\ failed = Sibling("Details")
    /\ executed = <<Sibling("All"), Sibling("Details")>>
    /\ pending = <<Sibling("EditFromDetails")>>

\* The events of a discover call that ran to its end.
DiscoverEvents(cancel) ==
    <<"navigate_to", "fill", IF cancel THEN "cancel" ELSE "start">>

Occurs(e, seq) == \E i \in 1..Len(seq) : seq[i] = e

\* C6: discover navigates to 'Discover', then fills the four fields from its
\* arguments, then clicks one button, cancel when cancel is true and start
\* when it is false, and returns without polling anything. A cancelled call
\* never clicks start and sends no discovery request, whatever the fields.
C6_Discover ==
    fn = "discover" =>
        /\ target = Sibling("Discover")
        /\ IsPrefix(events, DiscoverEvents(args.cancel))
        /\ events # <<>> => result = "view"
        /\ form # <<>> <=> Occurs("fill", events)
        /\ form # <<>> =>
              form = [discover_type |-> args.d_type,
                      username |-> args.credential.principal,
                      password |-> args.credential.secret,
                      password_verify |-> args.credential.verify_secret]
        /\ fresult = "returned" <=> events = DiscoverEvents(args.cancel)
        /\ args.cancel => ~requested /\ ~Occurs("start", events)
        /\ requested => Occurs("start", events)
        /\ polls = 0 /\ refreshes = 0 /\ elapsed = 0

C6_Witness ==
    /\ fn = "discover"
    /\ fresult = "returned"
    /\ args.cancel
    /\ args.credential.secret # args.credential.verify_secret
    /\ events = <<"navigate_to", "fill", "cancel">>
    /\ ~requested

\* The events of a wait_for that polled p times and refreshed r times.
RECURSIVE PollEvents(_, _)
PollEvents(p, r) ==
    IF p = 0 THEN <<"navigate_to">>
    ELSE IF r = p THEN PollEvents(p - 1, r - 1) \o <<"poll", "refresh">>
    ELSE PollEvents(p - 1, r) \o <<"poll">>

\* What wait_for_a_provider may be doing in any state.
WaitForInvariant ==
    fn = "wait_for_a_provider" =>
        /\ target = Sibling("All")
        /\ fpc = "poll" =>
              /\ result = "view"
              /\ refreshes = polls
              /\ elapsed <= num_sec
              /\ polls > 0 => out = 0
        /\ fresult = "returned" =>
              /\ out # 0
              /\ out <= Cardinality(inventory)
              /\ refreshes = polls - 1
              /\ elapsed <= num_sec
        /\ fresult = "TimedOutError" =>
              /\ out = 0
              /\ refreshes = polls
              /\ elapsed > num_sec
        /\ polls > 0 => events = PollEvents(polls, refreshes)
        /\ polls * PollCost <= elapsed + PollCost
        /\ fresult \in {"none", "returned", "TimedOutError", "NavigationFailure",
                        "NavigationVerificationError"}

\* C7: wait_for_a_provider always ends. It polls only after 'All' was
\* reached, returns at the first poll that reads a count other than 0,
\* refreshes the browser after every poll that read 0 and after no other,
\* and raises the timeout once more than num_sec seconds have passed.
C7_WaitTerminates ==
    /\ []WaitForInvariant
    /\ (fn = "wait_for_a_provider") ~> (fn = "none")

C7_Witness ==
    /\ fn = "wait_for_a_provider"
    /\ fresult = "TimedOutError"
    /\ inventory = {}
    /\ polls = 3
    /\ refreshes = 3
    /\ elapsed > num_sec

\* C8: the set get_all_providers builds is at every moment the set of titles
\* of the elements found so far whose href holds 'ems_cloud/show', each once;
\* the pages visited are 1, 2, ... in turn; it navigates to 'All' exactly
\* when do_not_navigate is false and otherwise reads the page shown, with
\* no navigation; an empty listing gives the empty set.
C8_GetAllProviders ==
    fn = "get_all_providers" =>
        /\ providers =
              {e.link.title :
                  e \in {x \in found :
                            x.link.href[1] = "ems_cloud" /\ x.link.href[2] = "show"}}
        /\ {e.page : e \in found} \subseteq 1..pageNo
        /\ args.do_not_navigate =>
              /\ pc = "idle"
              /\ executed = <<>>
              /\ loc = loc0
              /\ ~Occurs("navigate_to", events)
        /\ ~args.do_not_navigate =>
              /\ pc # "idle"
              /\ target = Sibling("All")
              /\ fpc \in {"pages", "next"} \/ fresult = "returned" =>
                    /\ result = "view"
                    /\ loc = Loc("All", NoProv)
                    /\ events[1] = "navigate_to"
        /\ fpc = "next" \/ fresult = "returned" =>
              Len(events) = pageNo + (IF args.do_not_navigate THEN 0 ELSE 1)
        /\ fresult = "returned" /\ inventory = {} => providers = {}
        /\ loc.page = "All" => providers \subseteq inventory
        /\ loc.page # "All" => providers = {}

C8_Witness ==
    /\ fn = "get_all_providers"
    /\ fresult = "returned"
    /\ ~args.do_not_navigate
    /\ pageNo = 2
    /\ Cardinality(found) = 2
    /\ providers = {2}

\* Following prerequisites from key reaches the root step within `hops`
\* steps without meeting a step twice or leaving the registry.
RECURSIVE ReachesRoot(_, _, _, _)
ReachesRoot(reg, key, visited, hops) ==
    IF key = ServerLoggedIn THEN key \in DOMAIN reg /\ reg[key].prerequisite = Root
    ELSE IF key \in visited \/ key \notin DOMAIN reg \/ hops = 0 THEN FALSE
    ELSE ReachesRoot(reg, reg[key].prerequisite, visited \cup {key}, hops - 1)

\* The registered graph of CloudProvider.
GraphOK ==
    /\ DOMAIN registry = {ServerLoggedIn} \cup {Sibling(n) : n \in CloudProviderSteps}
    /\ overrides = 0
    /\ \A n \in CloudProviderSteps :
          /\ ReachesRoot(registry, Sibling(n), {}, 3)
          /\ Occurs(Sibling("All"), Chain(registry, Sibling(n), Fuel(registry)))
          /\ n # "All" =>
                registry[Sibling(n)].prerequisite \in {Sibling("All"), Sibling("Details")}
    /\ registry[Sibling("All")].prerequisite = ServerLoggedIn

\* C10: once the module is imported the registry holds the root step and the
\* thirteen CloudProvider steps, each registered once; from each of them the
\* prerequisites lead to the root in at most 3 hops with no step met twice,
\* through 'All'; every sibling prerequisite is 'All' or 'Details'; and nothing
\* changes the registry afterwards.
C10_GraphAcyclicRooted ==
    /\ [](Imported => GraphOK)
    /\ [][Imported => registry' = registry]_vars
    /\ [][Cardinality(DOMAIN registry') >= Cardinality(DOMAIN registry)]_vars

C10_Witness ==
    /\ Imported
    /\ GraphOK
    /\ NavEnded
    /\ target = Sibling("Images")
    /\ executed = <<ServerLoggedIn, Sibling("All"), Sibling("Details"), Sibling("Images")>>
    /\ result = "view"

=============================================================================
